---- MODULE Spec2Model ----
(***************************************************************************)
(* A model of aws_dyn_dns (src/main.py): the IPv4 validator                *)
(* _validate_ip_v4 and the single-pass run of the __main__ block, which    *)
(* loads the record descriptor, asks the echo endpoint for the public      *)
(* address, validates it, opens the provider session, locates the hosted   *)
(* zone and the record set, and upserts the record.                        *)
(*                                                                         *)
(* A Python str is modelled as a sequence of one-character strings, so     *)
(* that strip, split, int, str and join are computed, not assumed.         *)
(***************************************************************************)
EXTENDS Integers, Sequences, FiniteSets, TLC

VARIABLES
    pc,             \* position of the __main__ block
    record_info,    \* <<RecordInfo>> once loaded at line 136, else <<>>
    echo_status,    \* HTTP status of the echo response (0: no response)
    raw_ip,         \* get_public_ip_v4's local raw_ip (response.text)
    public_ip,      \* public_ip of line 138 (<<>> before)
    hosted_zones,   \* hosted_zones of line 144
    target_hosted_zone,          \* <<zone>> once chosen at line 146, else <<>>
    target_hosted_zone_records,  \* line 150
    target_record,  \* <<record>> or <<>> (None), line 155
    upsert_calls,   \* the change_resource_record_sets requests issued
    trace,          \* the external operations issued, in order
    log,            \* the log records written, in order
    error,          \* the exception the except clause caught ("" when none)
    exit_status,    \* the process exit status (-1 while running)
    v_segs,         \* validator harness: the segments the input is built of
    v_raw,          \* validator harness: the input string
    v_round,        \* validator harness: 0 input drawn, 1 validated, 2 revalidated
    v_result,       \* validator harness: _validate_ip_v4(v_raw)
    v_again         \* validator harness: _validate_ip_v4 of the first result

vars == <<pc, record_info, echo_status, raw_ip, public_ip, hosted_zones,
          target_hosted_zone, target_hosted_zone_records, target_record,
          upsert_calls, trace, log, error, exit_status,
          v_segs, v_raw, v_round, v_result, v_again>>

runVars == <<pc, record_info, echo_status, raw_ip, public_ip, hosted_zones,
             target_hosted_zone, target_hosted_zone_records, target_record,
             upsert_calls, trace, log, error, exit_status>>

harnessVars == <<v_segs, v_raw, v_round, v_result, v_again>>

(***************************************************************************)
(* Bounds of the model.                                                    *)
(***************************************************************************)
MaxSegs == 5
MaxZones == 2
MaxRecords == 2

(***************************************************************************)
(* Python string primitives.                                               *)
(***************************************************************************)
Range(s) == {s[i] : i \in 1..Len(s)}

Digits == <<"0", "1", "2", "3", "4", "5", "6", "7", "8", "9">>

IsDigit(c) == c \in Range(Digits)

DigitVal(c) == (CHOOSE i \in 1..10 : Digits[i] = c) - 1

IsSpace(c) == c \in {" ", "\t", "\n", "\r"}

RECURSIVE LStrip(_)
LStrip(s) == IF s # <<>> /\ IsSpace(Head(s)) THEN LStrip(Tail(s)) ELSE s

RECURSIVE RStrip(_)
RStrip(s) ==
    IF s # <<>> /\ IsSpace(s[Len(s)]) THEN RStrip(SubSeq(s, 1, Len(s) - 1)) ELSE s

\* str.strip()
PyStrip(s) == RStrip(LStrip(s))

\* str.split(sep) for a one-character separator: "" gives [""]
RECURSIVE PySplit(_, _)
PySplit(s, sep) ==
    IF \E i \in 1..Len(s) : s[i] = sep
    THEN LET i == CHOOSE k \in 1..Len(s) :
                     s[k] = sep /\ \A j \in 1..(k - 1) : s[j] # sep
         IN  <<SubSeq(s, 1, i - 1)>> \o PySplit(SubSeq(s, i + 1, Len(s)), sep)
    ELSE <<s>>

\* sep.join(parts)
RECURSIVE PyJoin(_, _)
PyJoin(sep, parts) ==
    IF parts = <<>> THEN <<>>
    ELSE IF Len(parts) = 1 THEN parts[1]
    ELSE parts[1] \o <<sep>> \o PyJoin(sep, Tail(parts))

\* the value of a run of digits and underscores, underscores skipped
RECURSIVE DigitsValue(_, _)
DigitsValue(s, acc) ==
    IF s = <<>> THEN acc
    ELSE IF Head(s) = "_" THEN DigitsValue(Tail(s), acc)
    ELSE DigitsValue(Tail(s), acc * 10 + DigitVal(Head(s)))

\* what int() accepts after the sign: digits, single underscores between them
IsIntBody(s) ==
    /\ s # <<>>
    /\ \A i \in 1..Len(s) : IsDigit(s[i]) \/ s[i] = "_"
    /\ IsDigit(s[1])
    /\ IsDigit(s[Len(s)])
    /\ \A i \in 1..(Len(s) - 1) : ~(s[i] = "_" /\ s[i + 1] = "_")

\* int(s), base 10: surrounding whitespace is stripped, one sign is allowed,
\* then digits with single underscores between them; anything else raises
\* ValueError (ok = FALSE)
PyInt(s) ==
    LET t    == PyStrip(s)
        neg  == t # <<>> /\ Head(t) = "-"
        body == IF t # <<>> /\ Head(t) \in {"+", "-"} THEN Tail(t) ELSE t
    IN  IF IsIntBody(body)
        THEN [ok |-> TRUE,
              val |-> IF neg THEN 0 - DigitsValue(body, 0) ELSE DigitsValue(body, 0)]
        ELSE [ok |-> FALSE, val |-> 0]

\* str(n) of an int
RECURSIVE PyStr(_)
PyStr(n) ==
    IF n < 0 THEN <<"-">> \o PyStr(0 - n)
    ELSE IF n < 10 THEN <<Digits[n + 1]>>
    ELSE PyStr(n \div 10) \o <<Digits[(n % 10) + 1]>>

RECURSIVE MapStr(_)
MapStr(ints) ==
    IF ints = <<>> THEN <<>> ELSE <<PyStr(Head(ints))>> \o MapStr(Tail(ints))

(***************************************************************************)
(* _validate_ip_v4 (lines 55-75).  The result is either the returned       *)
(* string or the ValueError raised, named after its message.               *)
(***************************************************************************)
Returned(s) == [kind |-> "ok", value |-> s]
Raised(k)   == [kind |-> k, value |-> <<>>]

ErrNumBytes    == "number_of_bytes"   \* line 59
ErrInvalidType == "invalid_type"      \* line 68
ErrOutOfRange  == "out_of_range"      \* line 71

\* a mutant of InByteRange: the upper limit is exclusive
ByteRangeExclusive(b) == 0 <= b /\ b < 255

\* line 70
InByteRange(b) == 0 <= b /\ b <= 255

\* a mutant of Canonical: the bytes are collected in reverse
CanonicalReversed(parsed_bytes) ==
    PyJoin(".", MapStr([i \in 1..Len(parsed_bytes) |->
                            parsed_bytes[Len(parsed_bytes) + 1 - i]]))

\* line 75
Canonical(parsed_bytes) == PyJoin(".", MapStr(parsed_bytes))

\* a mutant of ValidateBytes: every segment is parsed before any range check
RECURSIVE AllParse(_)
AllParse(raw_bytes) ==
    raw_bytes = <<>> \/ (PyInt(Head(raw_bytes)).ok /\ AllParse(Tail(raw_bytes)))

ValidateBytesTwoPass(raw_bytes, i, parsed_bytes) ==
    IF ~AllParse(raw_bytes) THEN Raised(ErrInvalidType)
    ELSE IF \E k \in 1..Len(raw_bytes) : ~InByteRange(PyInt(raw_bytes[k]).val)
    THEN Raised(ErrOutOfRange)
    ELSE Returned(Canonical([k \in 1..Len(raw_bytes) |-> PyInt(raw_bytes[k]).val]))

\* the loop of lines 63-73 from segment i on, and the return of line 75
RECURSIVE ValidateBytes(_, _, _)
ValidateBytes(raw_bytes, i, parsed_bytes) ==
    IF i > Len(raw_bytes) THEN Returned(Canonical(parsed_bytes))
    ELSE LET parsed == PyInt(raw_bytes[i])
         IN  IF ~parsed.ok THEN Raised(ErrInvalidType)
             ELSE IF ~InByteRange(parsed.val) THEN Raised(ErrOutOfRange)
             ELSE ValidateBytes(raw_bytes, i + 1, Append(parsed_bytes, parsed.val))

\* lines 55-75
_validate_ip_v4(raw_ip_v4) ==
    LET raw_bytes == PySplit(PyStrip(raw_ip_v4), ".")
    IN  IF Len(raw_bytes) # 4 THEN Raised(ErrNumBytes)
        ELSE ValidateBytes(raw_bytes, 1, <<>>)

(***************************************************************************)
(* The inputs the validator is checked on: 1..MaxSegs segments, each drawn *)
(* from Segments, joined with dots.                                        *)
(***************************************************************************)
Segments == {
    <<"0">>, <<"0", "1">>, <<"2", "5", "5">>, <<"2", "5", "6">>,
    <<"+", "1">>, <<"-", "1">>, <<"1", "_", "0">>, <<"0", "x", "1">> }

SegLists(S) == UNION {[1..n -> S] : n \in 1..MaxSegs}

\* further inputs: the examples of the documentation, and whitespace, an
\* empty segment, a negative zero and a trailing newline
ExampleInputs == {
    << <<"1","9","2">>, <<"1","6","8">>, <<"1">>, <<"1">> >>,
    << <<"0","1">>, <<"0","2">>, <<"0","3">>, <<"0","4">> >>,
    << <<"2","5","6">>, <<"1">>, <<"1">>, <<"1">> >>,
    << <<"1">>, <<"2">>, <<"3">> >>,
    << <<"1">>, <<"2">>, <<"3">>, <<"4">>, <<"5">> >>,
    << <<"a">>, <<"b">> >>,
    << <<"1">>, <<"2">>, <<"3">>, <<"f","o","u","r">> >>,
    << <<" ","1">>, <<" ","2">>, <<"3">>, <<"4","\n">> >>,
    << <<"1">>, <<"2"," ","2">>, <<"3">>, <<"4">> >>,
    << <<"1">>, <<>>, <<"3">>, <<"4">> >>,
    << <<"-","0">>, <<"0">>, <<"0">>, <<"0">> >>,
    << <<>> >> }

NoResult == [kind |-> "none", value |-> <<>>]

(***************************************************************************)
(* The validator on its own: an input is drawn, validated, and a returned  *)
(* address is validated once more.                                         *)
(***************************************************************************)
Idle ==
    /\ pc = "idle"
    /\ record_info = <<>>
    /\ echo_status = 0
    /\ raw_ip = <<>>
    /\ public_ip = <<>>
    /\ hosted_zones = <<>>
    /\ target_hosted_zone = <<>>
    /\ target_hosted_zone_records = <<>>
    /\ target_record = <<>>
    /\ upsert_calls = <<>>
    /\ trace = <<>>
    /\ log = <<>>
    /\ error = ""
    /\ exit_status = -1

VInit ==
    /\ Idle
    /\ v_segs \in SegLists(Segments) \cup ExampleInputs
    /\ v_raw = PyJoin(".", v_segs)
    /\ v_round = 0
    /\ v_result = NoResult
    /\ v_again = NoResult

Validate ==
    /\ v_round = 0
    /\ v_result' = _validate_ip_v4(v_raw)
    /\ v_round' = 1
    /\ UNCHANGED <<v_segs, v_raw, v_again>>
    /\ UNCHANGED runVars

Revalidate ==
    /\ v_round = 1
    /\ v_result.kind = "ok"
    /\ v_again' = _validate_ip_v4(v_result.value)
    /\ v_round' = 2
    /\ UNCHANGED <<v_segs, v_raw, v_result>>
    /\ UNCHANGED runVars

VNext == Validate \/ Revalidate

SpecValidate == VInit /\ [][VNext]_vars

(***************************************************************************)
(* The run of the __main__ block (lines 133-173).                          *)
(***************************************************************************)
DEFAULT_TYPE == "A"     \* line 123
DEFAULT_TTL == 300      \* line 124

RequiredFields == {"target_hosted_zone_name", "target_record_set_name"}

\* the documents hosted_zone_config.json may hold
HostedZoneConfigs == {
    [target_hosted_zone_name |-> "a.", target_record_set_name |-> "h.a."],
    [target_hosted_zone_name |-> "b.", target_record_set_name |-> "h.b.",
     target_record_set_type |-> "A", target_record_set_ttl |-> 60],
    [target_hosted_zone_name |-> "a."] }

\* RecordInfo(**parsed_record_info), lines 119-124, for a document that has
\* the required fields
RecordInfo(cfg) ==
    [target_hosted_zone_name |-> cfg.target_hosted_zone_name,
     target_record_set_name  |-> cfg.target_record_set_name,
     target_record_set_type  |->
         IF "target_record_set_type" \in DOMAIN cfg
         THEN cfg.target_record_set_type ELSE DEFAULT_TYPE,
     target_record_set_ttl   |->
         IF "target_record_set_ttl" \in DOMAIN cfg
         THEN cfg.target_record_set_ttl ELSE DEFAULT_TTL]

\* the statuses the echo endpoint may answer with
Statuses == {200, 204, 304, 404, 500}

\* a mutant of RaiseForStatus: only server errors raise
RaiseForServerErrorOnly(status) == 500 <= status /\ status < 600

\* response.raise_for_status(), line 80: raises for 4xx and 5xx
RaiseForStatus(status) == 400 <= status /\ status < 600

\* the bodies the echo endpoint may answer with
Bodies == {PyJoin(".", segs) : segs \in ExampleInputs}

\* what the provider may return
ZoneNames == {"a.", "b."}
ZoneIds == {"/hostedzone/Z1", "/hostedzone/Z2"}
Zones == [Name : ZoneNames, Id : ZoneIds]
ZoneLists == UNION {[1..n -> Zones] : n \in 0..MaxZones}

RecordNames == {"h.a.", "h.b."}
OtherIp == <<"9", ".", "9", ".", "9", ".", "9">>
RecordSets(ip) == [Name : RecordNames, Value : {ip, OtherIp}]
RecordSetLists(ip) == UNION {[1..n -> RecordSets(ip)] : n \in 0..MaxRecords}

\* a mutant of FirstMatching: without a match the first item is taken
FirstOrFallback(items, name) ==
    IF \E i \in 1..Len(items) : items[i].Name = name
    THEN <<items[CHOOSE i \in 1..Len(items) :
                /\ items[i].Name = name
                /\ \A j \in 1..(i - 1) : items[j].Name # name]>>
    ELSE IF items # <<>> THEN <<items[1]>> ELSE <<>>

\* a mutant of FirstMatching: the last match is taken
LastMatching(items, name) ==
    IF \E i \in 1..Len(items) : items[i].Name = name
    THEN <<items[CHOOSE i \in 1..Len(items) :
                /\ items[i].Name = name
                /\ \A j \in (i + 1)..Len(items) : items[j].Name # name]>>
    ELSE <<>>

\* next(filter(lambda x: x['Name'] == name, items), None), lines 146-147 and
\* 155-157: <<the first match>>, or <<>> when the filter is exhausted
RECURSIVE FirstMatching(_, _)
FirstMatching(items, name) ==
    IF items = <<>> THEN <<>>
    ELSE IF Head(items).Name = name THEN <<Head(items)>>
    ELSE FirstMatching(Tail(items), name)

\* the request of update_route_53_record_set, lines 103-116
ChangeRequest(hosted_zone_id, name, type, ttl, value) ==
    [HostedZoneId |-> hosted_zone_id,
     Action |-> "UPSERT",
     Name |-> name,
     Type |-> type,
     TTL |-> ttl,
     ResourceRecords |-> <<value>>]

\* a mutant of ReturnedIp: the raw text is returned
ReturnedRaw(raw, validated) == raw

\* return validated_ip_v4, line 85
ReturnedIp(raw, validated) == validated

Entry(level, msg) == [level |-> level, msg |-> msg]

\* the except clause, lines 172-173: one critical record, then the script ends
Fail(e, log_so_far) ==
    /\ error' = e
    /\ log' = Append(log_so_far, Entry("CRITICAL", "Unhandled exception"))
    /\ pc' = "exit"

Init ==
    /\ pc = "start"
    /\ record_info = <<>>
    /\ echo_status = 0
    /\ raw_ip = <<>>
    /\ public_ip = <<>>
    /\ hosted_zones = <<>>
    /\ target_hosted_zone = <<>>
    /\ target_hosted_zone_records = <<>>
    /\ target_record = <<>>
    /\ upsert_calls = <<>>
    /\ trace = <<>>
    /\ log = <<>>
    /\ error = ""
    /\ exit_status = -1
    /\ v_segs = <<>>
    /\ v_raw = <<>>
    /\ v_round = 0
    /\ v_result = NoResult
    /\ v_again = NoResult

\* a mutant of LoadRecordInfo: the session credentials are read here as well
LoadRecordInfoAndSession ==
    /\ pc = "start"
    /\ trace' = trace \o <<"load_record_info", "load_session">>
    /\ \E cfg \in HostedZoneConfigs :
          /\ RequiredFields \subseteq DOMAIN cfg
          /\ record_info' = <<RecordInfo(cfg)>>
          /\ log' = Append(log, Entry("INFO", "Running..."))
          /\ pc' = "get_public_ip"
          /\ UNCHANGED error
    /\ UNCHANGED <<echo_status, raw_ip, public_ip, hosted_zones, target_hosted_zone,
                   target_hosted_zone_records, target_record, upsert_calls,
                   exit_status>>
    /\ UNCHANGED harnessVars

\* lines 135-136 and load_record_info, lines 127-130
LoadRecordInfo ==
    /\ pc = "start"
    /\ trace' = Append(trace, "load_record_info")
    /\ LET running == Append(log, Entry("INFO", "Running..."))
       IN  \/ \E cfg \in HostedZoneConfigs :
                 /\ RequiredFields \subseteq DOMAIN cfg
                 /\ record_info' = <<RecordInfo(cfg)>>
                 /\ log' = running
                 /\ pc' = "get_public_ip"
                 /\ UNCHANGED error
           \/ \E cfg \in HostedZoneConfigs :
                 /\ ~(RequiredFields \subseteq DOMAIN cfg)
                 /\ Fail("TypeError", running)
                 /\ UNCHANGED record_info
           \/ /\ Fail("OSError", running)
              /\ UNCHANGED record_info
    /\ UNCHANGED <<echo_status, raw_ip, public_ip, hosted_zones, target_hosted_zone,
                   target_hosted_zone_records, target_record, upsert_calls,
                   exit_status>>
    /\ UNCHANGED harnessVars

\* get_public_ip_v4 up to raw_ip, lines 79-82
EchoRequest ==
    /\ pc = "get_public_ip"
    /\ trace' = Append(trace, "echo")
    /\ \/ /\ Fail("ConnectionError", log)
          /\ UNCHANGED <<echo_status, raw_ip>>
       \/ \E status \in Statuses :
             /\ RaiseForStatus(status)
             /\ echo_status' = status
             /\ Fail("HTTPError", log)
             /\ UNCHANGED raw_ip
       \/ \E status \in Statuses, text \in Bodies :
             /\ ~RaiseForStatus(status)
             /\ echo_status' = status
             /\ raw_ip' = text
             /\ pc' = "validate"
             /\ UNCHANGED <<log, error>>
    /\ UNCHANGED <<record_info, public_ip, hosted_zones, target_hosted_zone,
                   target_hosted_zone_records, target_record, upsert_calls,
                   exit_status>>
    /\ UNCHANGED harnessVars

\* the rest of get_public_ip_v4, lines 83-85, and lines 138-139
ValidateResponse ==
    /\ pc = "validate"
    /\ trace' = Append(trace, "validate")
    /\ LET validated == _validate_ip_v4(raw_ip)
       IN  \/ /\ validated.kind = "ok"
              /\ public_ip' = ReturnedIp(raw_ip, validated.value)
              /\ log' = Append(log, Entry("INFO", "IPv4 is"))
              /\ pc' = "session"
              /\ UNCHANGED error
           \/ /\ validated.kind # "ok"
              /\ Fail("ValueError", log)
              /\ UNCHANGED public_ip
    /\ raw_ip' = <<>>
    /\ UNCHANGED <<record_info, echo_status, hosted_zones, target_hosted_zone,
                   target_hosted_zone_records, target_record, upsert_calls,
                   exit_status>>
    /\ UNCHANGED harnessVars

\* get_boto3_session and session.client, lines 141-142 and 88-93
GetBoto3Session ==
    /\ pc = "session"
    /\ trace' = Append(trace, "load_session")
    /\ \/ /\ pc' = "list_zones"
          /\ UNCHANGED <<log, error>>
       \/ Fail("OSError", log)
    /\ UNCHANGED <<record_info, echo_status, raw_ip, public_ip, hosted_zones,
                   target_hosted_zone, target_hosted_zone_records, target_record,
                   upsert_calls, exit_status>>
    /\ UNCHANGED harnessVars

\* lines 144-145
ListHostedZones ==
    /\ pc = "list_zones"
    /\ trace' = Append(trace, "list_hosted_zones")
    /\ \/ \E zones \in ZoneLists :
             /\ hosted_zones' = zones
             /\ log' = Append(log, Entry("DEBUG", "Found hosted zone(s)"))
             /\ pc' = "select_zone"
             /\ UNCHANGED error
       \/ /\ Fail("ClientError", log)
          /\ UNCHANGED hosted_zones
    /\ UNCHANGED <<record_info, echo_status, raw_ip, public_ip, target_hosted_zone,
                   target_hosted_zone_records, target_record, upsert_calls,
                   exit_status>>
    /\ UNCHANGED harnessVars

\* lines 146-148: next() without a default raises StopIteration
SelectZone ==
    /\ pc = "select_zone"
    /\ LET found == FirstMatching(hosted_zones, record_info[1].target_hosted_zone_name)
       IN  \/ /\ found # <<>>
              /\ target_hosted_zone' = found
              /\ log' = Append(log, Entry("INFO", "Target hosted zone is"))
              /\ pc' = "list_records"
              /\ UNCHANGED error
           \/ /\ found = <<>>
              /\ Fail("StopIteration", log)
              /\ UNCHANGED target_hosted_zone
    /\ UNCHANGED <<record_info, echo_status, raw_ip, public_ip, hosted_zones,
                   target_hosted_zone_records, target_record, upsert_calls, trace,
                   exit_status>>
    /\ UNCHANGED harnessVars

\* lines 150-153
ListRecordSets ==
    /\ pc = "list_records"
    /\ trace' = Append(trace, "list_resource_record_sets")
    /\ \/ \E records \in RecordSetLists(public_ip) :
             /\ target_hosted_zone_records' = records
             /\ log' = Append(log, Entry("DEBUG", "Found record set(s)"))
             /\ pc' = "select_record"
             /\ UNCHANGED error
       \/ /\ Fail("ClientError", log)
          /\ UNCHANGED target_hosted_zone_records
    /\ UNCHANGED <<record_info, echo_status, raw_ip, public_ip, hosted_zones,
                   target_hosted_zone, target_record, upsert_calls, exit_status>>
    /\ UNCHANGED harnessVars

\* lines 155-158: next() with the default None
SelectRecord ==
    /\ pc = "select_record"
    /\ target_record' = FirstMatching(target_hosted_zone_records,
                                      record_info[1].target_record_set_name)
    /\ log' = Append(log, Entry("INFO", "Target record set is"))
    /\ pc' = "upsert"
    /\ UNCHANGED <<record_info, echo_status, raw_ip, public_ip, hosted_zones,
                   target_hosted_zone, target_hosted_zone_records, upsert_calls,
                   trace, error, exit_status>>
    /\ UNCHANGED harnessVars

\* lines 160-170 and update_route_53_record_set, lines 96-116
Upsert ==
    /\ pc = "upsert"
    /\ trace' = Append(trace, "change_resource_record_sets")
    /\ upsert_calls' = Append(upsert_calls,
           ChangeRequest(target_hosted_zone[1].Id,
                         record_info[1].target_record_set_name,
                         record_info[1].target_record_set_type,
                         record_info[1].target_record_set_ttl,
                         public_ip))
    /\ \/ /\ log' = Append(log, Entry("INFO", "Target record set updated!"))
          /\ pc' = "exit"
          /\ UNCHANGED error
       \/ Fail("ClientError", log)
    /\ UNCHANGED <<record_info, echo_status, raw_ip, public_ip, hosted_zones,
                   target_hosted_zone, target_hosted_zone_records, target_record,
                   exit_status>>
    /\ UNCHANGED harnessVars

\* the end of the script, after line 170 or line 173: nothing sets an exit
\* status, so the interpreter exits with 0
Exit ==
    /\ pc = "exit"
    /\ pc' = "done"
    /\ exit_status' = 0
    /\ UNCHANGED <<record_info, echo_status, raw_ip, public_ip, hosted_zones,
                   target_hosted_zone, target_hosted_zone_records, target_record,
                   upsert_calls, trace, log, error>>
    /\ UNCHANGED harnessVars

Next ==
    \/ LoadRecordInfo
    \/ EchoRequest
    \/ ValidateResponse
    \/ GetBoto3Session
    \/ ListHostedZones
    \/ SelectZone
    \/ ListRecordSets
    \/ SelectRecord
    \/ Upsert
    \/ Exit

Spec == Init /\ [][Next]_vars

(***************************************************************************)
(* Vocabulary of the properties, stated without the validator's own        *)
(* operators.                                                              *)
(***************************************************************************)
Str_192_168_1_1 == <<"1","9","2",".","1","6","8",".","1",".","1">>
Str_01_02_03_04 == <<"0","1",".","0","2",".","0","3",".","0","4">>
Str_1_2_3_4 == <<"1",".","2",".","3",".","4">>

\* a non-empty run of decimal digits
PlainDigits(seg) == seg # <<>> /\ \A i \in 1..Len(seg) : IsDigit(seg[i])

\* the value of a run of decimal digits
RECURSIVE DecimalValue(_)
DecimalValue(seg) ==
    IF seg = <<>> THEN 0
    ELSE 10 * DecimalValue(SubSeq(seg, 1, Len(seg) - 1)) + DigitVal(seg[Len(seg)])

\* a run of decimal digits with its leading zeros removed
RECURSIVE StripLeadingZeros(_)
StripLeadingZeros(seg) ==
    IF Len(seg) > 1 /\ Head(seg) = "0" THEN StripLeadingZeros(Tail(seg)) ELSE seg

\* a plain decimal segment of value 0..255
PlainByte(seg) == PlainDigits(seg) /\ DecimalValue(seg) <= 255

\* a canonical dotted address: four plain bytes without leading zeros
CanonicalAddress(s) ==
    LET parts == PySplit(s, ".")
    IN  /\ Len(parts) = 4
        /\ \A i \in 1..4 : PlainByte(parts[i]) /\ StripLeadingZeros(parts[i]) = parts[i]

\* the segment is one the parser of the code takes and finds in 0..255
Accepted(seg) == PyInt(seg).ok /\ PyInt(seg).val >= 0 /\ PyInt(seg).val <= 255

Occurs(op) == \E i \in 1..Len(trace) : trace[i] = op

Position(op) == CHOOSE i \in 1..Len(trace) : trace[i] = op

ProviderOps == {"list_hosted_zones", "list_resource_record_sets",
                "change_resource_record_sets"}

NoProviderCall == \A i \in 1..Len(trace) : trace[i] \notin ProviderOps

Criticals == Cardinality({i \in 1..Len(log) : log[i].level = "CRITICAL"})

(***************************************************************************)
(* The claims about _validate_ip_v4, under SpecValidate.                   *)
(***************************************************************************)
C1_Case == Len(v_segs) = 4 /\ \A i \in 1..4 : PlainByte(v_segs[i])

\* C1: an input of exactly four dot-separated runs of decimal digits, each of
\* value 0..255, is accepted, and the result is the four numbers in the same
\* order, joined with dots, leading zeros removed.
C1_PlainBytesAccepted ==
    /\ (v_round >= 1 /\ C1_Case) =>
           v_result = Returned(PyJoin(".", [i \in 1..4 |-> StripLeadingZeros(v_segs[i])]))
    /\ (v_round >= 1 /\ v_raw = Str_01_02_03_04) => v_result = Returned(Str_1_2_3_4)
    /\ (v_round >= 1 /\ v_raw = Str_192_168_1_1) => v_result = Returned(Str_192_168_1_1)

C1_Witness ==
    /\ v_round >= 1
    /\ C1_Case
    /\ v_segs[1] = <<"0", "1">>
    /\ v_segs[4] = <<"2", "5", "5">>
    /\ v_result.kind = "ok"
    /\ v_result.value # v_raw

\* C2: with exactly four segments, when the first segment that is not a plain
\* byte is not a plain run of decimal digits (a sign, whitespace, an
\* underscore, a hex prefix, empty), validation fails with the
\* non-numeric-segment error and returns no address.
C2_StrictDecimalParsing ==
    (/\ v_round >= 1
     /\ Len(v_segs) = 4
     /\ \E i \in 1..4 : /\ ~PlainDigits(v_segs[i])
                        /\ \A j \in 1..(i - 1) : PlainByte(v_segs[j]))
    => v_result = Raised(ErrInvalidType)

\* C8: when validation succeeds, validating its output succeeds as well and
\* returns the same string.
C8_Idempotent == v_round = 2 => v_again = v_result

C8_Witness ==
    /\ v_round = 2
    /\ v_result.kind = "ok"
    /\ v_result.value # v_raw
    /\ v_again = v_result

\* C9: failures are classified in a fixed order: an input that does not split
\* into exactly four segments fails with the segment-count error; otherwise
\* the first segment, from the left, that the parser rejects or that lies
\* outside 0..255 decides: the non-numeric error when it does not parse, the
\* out-of-range error when it parses.
C9_FailureOrder ==
    v_round >= 1 =>
        /\ Len(v_segs) # 4 => v_result = Raised(ErrNumBytes)
        /\ \A i \in 1..Len(v_segs) :
              (/\ Len(v_segs) = 4
               /\ ~Accepted(v_segs[i])
               /\ \A j \in 1..(i - 1) : Accepted(v_segs[j]))
              => v_result = IF PyInt(v_segs[i]).ok THEN Raised(ErrOutOfRange)
                            ELSE Raised(ErrInvalidType)

C9_Witness ==
    /\ v_round >= 1
    /\ Len(v_segs) = 4
    /\ v_segs[1] = <<"0">>
    /\ v_segs[2] = <<"2", "5", "6">>
    /\ v_segs[3] = <<"0", "x", "1">>
    /\ v_result = Raised(ErrOutOfRange)

(***************************************************************************)
(* The claims about the run, under Spec.                                   *)
(***************************************************************************)
Logged(msg) == \E i \in 1..Len(log) : log[i].msg = msg

\* list_hosted_zones_by_name has returned (line 145 has logged)
ZonesListed == Logged("Found hosted zone(s)")

\* list_resource_record_sets has returned (line 153 has logged)
RecordsListed == Logged("Found record set(s)")

ZoneMatches(i) == hosted_zones[i].Name = record_info[1].target_hosted_zone_name

NoZoneMatches == ZonesListed /\ \A i \in 1..Len(hosted_zones) : ~ZoneMatches(i)

SomeZoneMatches == ZonesListed /\ \E i \in 1..Len(hosted_zones) : ZoneMatches(i)

\* the upsert was issued exactly once, against the first matching zone, with
\* the resolved address as its single value
OneUpsertOfPublicIp ==
    /\ Len(upsert_calls) = 1
    /\ upsert_calls[1].Action = "UPSERT"
    /\ upsert_calls[1].ResourceRecords = <<public_ip>>
    /\ \E i \in 1..Len(hosted_zones) :
          /\ ZoneMatches(i)
          /\ \A j \in 1..(i - 1) : ~ZoneMatches(j)
          /\ upsert_calls[1].HostedZoneId = hosted_zones[i].Id

IsPrefix(s, t) == Len(s) <= Len(t) /\ s = SubSeq(t, 1, Len(s))

\* C3: when no returned zone has the configured name, the run aborts in the
\* top-level handler and issues neither the record listing nor an upsert.
C3_NoZoneAborts ==
    NoZoneMatches =>
        /\ ~Occurs("list_resource_record_sets")
        /\ ~Occurs("change_resource_record_sets")
        /\ upsert_calls = <<>>
        /\ pc \in {"select_zone", "exit", "done"}
        /\ pc \in {"exit", "done"} => (error = "StopIteration" /\ Criticals = 1)

C3_Witness ==
    /\ pc = "done"
    /\ NoZoneMatches
    /\ Len(hosted_zones) >= 1
    /\ error = "StopIteration"
    /\ upsert_calls = <<>>

\* C4 as claimed: in every finished run where configuration loaded, the
\* address resolved and a returned zone has the configured name, the upsert
\* was issued exactly once, against the first matching zone, with the
\* resolved address as its single value.
C4_UpsertWheneverZoneMatches ==
    (pc = "done" /\ SomeZoneMatches) => OneUpsertOfPublicIp

\* C4 as amended: the same, in every finished run where in addition the
\* record listing returned; whatever the listed records hold.
C4_UpsertOnceRecordsListed ==
    (pc = "done" /\ SomeZoneMatches /\ RecordsListed) => OneUpsertOfPublicIp

C4_Witness ==
    /\ pc = "done"
    /\ RecordsListed
    /\ Len(hosted_zones) = 2
    /\ ZoneMatches(1) /\ ZoneMatches(2)
    /\ hosted_zones[1].Id # hosted_zones[2].Id
    /\ target_record # <<>>
    /\ target_record[1].Value = public_ip
    /\ OneUpsertOfPublicIp

\* C5: a finished run in which a stage failed has exactly one critical log
\* record and a non-zero exit status; a finished run without failure has exit
\* status 0 and no critical log record.
C5_ExitStatusTellsFailure ==
    pc = "done" =>
        /\ error # "" => (Criticals = 1 /\ exit_status # 0)
        /\ error = "" => (Criticals = 0 /\ exit_status = 0)

ClaimedOrder(first, second) ==
    <<first, second, "echo", "validate", "list_hosted_zones",
      "list_resource_record_sets", "change_resource_record_sets">>

\* C6 as claimed: both configuration reads come first, then the echo call
\* and the validation, then list-zones, list-record-sets and the upsert.
C6_BothConfigReadsFirst ==
    \/ IsPrefix(trace, ClaimedOrder("load_record_info", "load_session"))
    \/ IsPrefix(trace, ClaimedOrder("load_session", "load_record_info"))

StageOrder ==
    <<"load_record_info", "echo", "validate", "load_session", "list_hosted_zones",
      "list_resource_record_sets", "change_resource_record_sets">>

\* C6 as amended: the record descriptor is read first, then come the echo
\* call and the validation, then the session credentials are read, then
\* list-zones, list-record-sets and the upsert, each only after the one before.
C6_StageOrder == IsPrefix(trace, StageOrder)

C6_Witness == pc = "done" /\ trace = StageOrder /\ error = ""

NoAddressNoProviderCall ==
    /\ pc \in {"exit", "done"}
    /\ error = "HTTPError"
    /\ ~Occurs("validate")
    /\ public_ip = <<>>
    /\ NoProviderCall

C10_ProviderCallsAfterValidation ==
    /\ \A i \in 1..Len(trace) :
          trace[i] \in ProviderOps => \E j \in 1..(i - 1) : trace[j] = "validate"
    /\ ~NoProviderCall => CanonicalAddress(public_ip)
    /\ error \in {"ConnectionError", "HTTPError", "ValueError"} => NoProviderCall
    /\ \A i \in 1..Len(upsert_calls) :
          /\ Len(upsert_calls[i].ResourceRecords) = 1
          /\ CanonicalAddress(upsert_calls[i].ResourceRecords[1])
    /\ Len(upsert_calls) <= 1

C10_Witness ==
    /\ pc = "done"
    /\ Len(upsert_calls) = 1
    /\ upsert_calls[1].ResourceRecords = <<Str_1_2_3_4>>

====
